---- MODULE Spec2Model ----
(***************************************************************************)
(* A model of langchain_google_genai/chat_models.py: the retrying invoker  *)
(* (_chat_with_retry, _achat_with_retry), the history translator           *)
(* (_convert_to_parts, _parse_chat_history), the response translator       *)
(* (_parts_to_content, _response_to_result) and the public operations of   *)
(* ChatGoogleGenerativeAI (_generate, _agenerate, _stream, _astream).      *)
(*                                                                         *)
(* Text is modelled as a sequence of words, so that substring tests and    *)
(* string formatting are computed rather than assumed.                     *)
(***************************************************************************)
EXTENDS Integers, Sequences, FiniteSets, TLC

VARIABLES
    \* ---- the retrying invoker (one invocation of _chat_with_retry / _achat_with_retry)
    ipc,             \* "idle" | "attempt" | "sleep" | "returned" | "raised"
    mode,            \* "none" | "sync" | "async"
    attempt_number,  \* tenacity's retry_state.attempt_number
    outcome,         \* tenacity's retry_state.outcome: what the decorated function did
    waits,           \* the sleeps made so far, in order
    calls,           \* number of times generation_method was called
    last_backend,    \* what generation_method did on its latest call
    only_transient,  \* every error generation_method raised so far was transient-classified
    caller,          \* what the caller of the invoker observes
    \* ---- the history translator (one call of _parse_chat_history)
    hpc,                 \* "idle" | "loop" | "returned" | "raised"
    input_messages,      \* the conversation
    convert_system_message_to_human,
    i,                   \* index of the next message of the loop (from 1)
    messages,            \* the turn list built so far
    raw_system_message,  \* <<>> (None) or <<the held-aside system message>>
    herr,                \* the exception _parse_chat_history raised
    nconv,               \* number of calls of _convert_to_parts made
    \* ---- the response translator (one call of _response_to_result)
    rpc,                 \* "idle" | "called" | "done"
    response,            \* the provider response
    types,               \* the constructors: ai_msg_t, human_msg_t, chat_msg_t, generation_t
    translated,          \* what _response_to_result returned or raised
    \* ---- the chat model (one call of _generate, _agenerate, _stream or _astream)
    config,              \* the fields of the ChatGoogleGenerativeAI instance
    op,                  \* "none" | "generate" | "agenerate" | "stream" | "astream"
    opc,                 \* "idle" | "invoking" | "suspended" | "exhausted" | "closed"
                         \*   | "done" | "failed"
    call,                \* the caller's arguments: messages, stop, run_manager, kwargs
    request,             \* the keyword arguments handed to generation_method
    delivered,           \* the partial responses the backend stream has delivered
    received,            \* the chunks the consumer of the stream has received
    tokens,              \* the texts passed to run_manager.on_llm_new_token
    observed,            \* what the caller of the operation observes at its end
    \* ---- a content sent as a turn and read back from a response of the same shape
    tpc,                 \* "idle" | "content" | "parts" | "back"
    sent_content,         \* the content of the message
    turn_parts,          \* what _convert_to_parts returned or raised
    back                 \* what _response_to_result made of a candidate with these parts

ivars == <<ipc, mode, attempt_number, outcome, waits, calls, last_backend,
           only_transient, caller>>

hvars == <<hpc, input_messages, convert_system_message_to_human, i, messages,
           raw_system_message, herr, nconv>>

rvars == <<rpc, response, types, translated>>

ovars == <<config, op, opc, call, request, delivered, received, tokens, observed>>

tvars == <<tpc, sent_content, turn_parts, back>>

vars == <<ivars, hvars, rvars, ovars, tvars>>

\* what each component leaves alone
notInvoker == <<hvars, rvars, ovars, tvars>>
notHistory == <<ivars, rvars, ovars, tvars>>
notResponse == <<ivars, hvars, ovars, tvars>>
notModel == <<hvars, rvars, tvars>>
notRoundTrip == <<ivars, hvars, rvars, ovars>>

-----------------------------------------------------------------------------
(* Text *)

IsInfix(needle, hay) ==
    \E at \in 0..(Len(hay) - Len(needle)) :
        SubSeq(hay, at + 1, at + Len(needle)) = needle

Min(a, b) == IF a <= b THEN a ELSE b
Max(a, b) == IF a >= b THEN a ELSE b

RECURSIVE Pow(_, _)
Pow(b, e) == IF e = 0 THEN 1 ELSE b * Pow(b, e - 1)

-----------------------------------------------------------------------------
(* Exceptions *)

NoneVal == "None"

NoExc == [cls |-> "None", message |-> <<>>, cause |-> <<>>]

Exc(c, m) == [cls |-> c, message |-> m, cause |-> <<>>]

ExcFrom(c, m, e) == [cls |-> c, message |-> m, cause |-> <<e>>]

Return(v) == [kind |-> "return", value |-> v, exc |-> NoExc]

Raise(e) == [kind |-> "raise", value |-> NoneVal, exc |-> e]

NoOutcome == [kind |-> "none", value |-> NoneVal, exc |-> NoExc]

\* The classes an exception of class c is an instance of.
MRO(c) ==
    CASE c = "ResourceExhausted" ->
            {"ResourceExhausted", "GoogleAPICallError", "GoogleAPIError", "Exception"}
      [] c = "ServiceUnavailable" ->
            {"ServiceUnavailable", "GoogleAPICallError", "GoogleAPIError", "Exception"}
      [] c = "FailedPrecondition" ->
            {"FailedPrecondition", "GoogleAPICallError", "GoogleAPIError", "Exception"}
      [] c = "InvalidArgument" ->
            {"InvalidArgument", "GoogleAPICallError", "GoogleAPIError", "Exception"}
      [] c = "GoogleAPIError" -> {"GoogleAPIError", "Exception"}
      [] c = "ChatGoogleGenerativeAIError" ->
            {"ChatGoogleGenerativeAIError", "GoogleGenerativeAIError", "Exception"}
      [] OTHER -> {c, "Exception"}

IsInstance(e, c) == c \in MRO(e.cls)

\* str(e): a GoogleAPICallError prints as "<code> <message>".
Str(e) ==
    IF e.cls = "InvalidArgument" \/ e.cls = "FailedPrecondition" THEN <<"400">> \o e.message
    ELSE IF e.cls = "ResourceExhausted" THEN <<"429">> \o e.message
    ELSE IF e.cls = "ServiceUnavailable" THEN <<"503">> \o e.message
    ELSE e.message

-----------------------------------------------------------------------------
(* The backend, as the invoker sees it *)

LocationNeedle == <<"location", "is", "not", "supported">>

Messages ==
    { <<"User", "location", "is", "not", "supported", "for", "the", "API", "use.">>,
      <<"location", "is", "not", "found">>,
      <<"quota", "exceeded">> }

BackendErrors ==
    {"ResourceExhausted", "ServiceUnavailable", "GoogleAPIError",
     "FailedPrecondition", "InvalidArgument", "RuntimeError"}

TransientClasses == {"ResourceExhausted", "ServiceUnavailable", "GoogleAPIError"}

Values == {"response_a", "response_b"}

BackendOutcomes ==
    {Return(v) : v \in Values}
        \cup {Raise(Exc(c, m)) : c \in BackendErrors, m \in Messages}

-----------------------------------------------------------------------------
(* _create_retry_decorator *)

multiplier == 2
min_seconds == 1
max_seconds == 60
max_retries == 10

stop_after_attempt_early(n) == n >= max_retries - 1

\* stop_after_attempt(max_retries)
stop_after_attempt(n) == n >= max_retries

wait_exponential_uncapped(n) == Max(min_seconds, multiplier * Pow(2, n - 1))

\* wait_exponential(multiplier, min, max) with the default exp_base 2:
\* multiplier * 2^(attempt_number - 1), clamped to [min, max].
wait_exponential(n) ==
    Max(Max(0, min_seconds), Min(multiplier * Pow(2, n - 1), max_seconds))

retry_any(e) == IsInstance(e, "Exception")

\* retry_if_exception_type(ResourceExhausted) | (ServiceUnavailable) | (GoogleAPIError)
retry(e) ==
    \/ IsInstance(e, "ResourceExhausted")
    \/ IsInstance(e, "ServiceUnavailable")
    \/ IsInstance(e, "GoogleAPIError")

LocationErrorMsg ==
    <<"Your location is not supported by google-generativeai at the moment.",
      "Try to use ChatVertexAI LLM from langchain_google_vertexai.">>

InvalidArgumentMsg(e) == <<"Invalid argument provided to Gemini:">> \o Str(e)

\* The decorated inner function of _chat_with_retry, given what
\* generation_method did.
_chat_with_retry(o) ==
    IF o.kind = "return" THEN o
    ELSE IF IsInstance(o.exc, "FailedPrecondition") THEN
        IF IsInfix(LocationNeedle, o.exc.message)
        THEN Raise(Exc("ValueError", LocationErrorMsg))
        ELSE Return(NoneVal)   \* the handler ends without raising
    ELSE IF IsInstance(o.exc, "InvalidArgument") THEN
        Raise(ExcFrom("ChatGoogleGenerativeAIError", InvalidArgumentMsg(o.exc), o.exc))
    ELSE Raise(o.exc)

\* The decorated inner function of _achat_with_retry.
_achat_with_retry(o) ==
    IF o.kind = "return" THEN o
    ELSE IF IsInstance(o.exc, "InvalidArgument") THEN
        Raise(ExcFrom("ChatGoogleGenerativeAIError", InvalidArgumentMsg(o.exc), o.exc))
    ELSE Raise(o.exc)

-----------------------------------------------------------------------------
(* The invoker as a state machine *)

InvokerIdle ==
    /\ ipc = "idle"
    /\ mode = "none"
    /\ attempt_number = 0
    /\ outcome = NoOutcome
    /\ waits = <<>>
    /\ calls = 0
    /\ last_backend = NoOutcome
    /\ only_transient = TRUE
    /\ caller = NoOutcome

\* _chat_with_retry(generation_method, **kwargs): the call enters the retry loop.
ChatWithRetry ==
    /\ ipc = "idle"
    /\ ipc' = "attempt"
    /\ mode' = "sync"
    /\ attempt_number' = 1
    /\ UNCHANGED <<outcome, waits, calls, last_backend, only_transient, caller>>
    /\ UNCHANGED notInvoker

\* _achat_with_retry(generation_method, **kwargs)
AChatWithRetry ==
    /\ ipc = "idle"
    /\ ipc' = "attempt"
    /\ mode' = "async"
    /\ attempt_number' = 1
    /\ UNCHANGED <<outcome, waits, calls, last_backend, only_transient, caller>>
    /\ UNCHANGED notInvoker

\* One attempt: the decorated function calls generation_method, its handlers
\* run, and the retry loop decides what follows.
Attempt ==
    /\ ipc = "attempt"
    /\ \E o \in BackendOutcomes :
        LET r == IF mode = "sync" THEN _chat_with_retry(o)
                 ELSE _achat_with_retry(o)
        IN  /\ calls' = calls + 1
            /\ last_backend' = o
            /\ only_transient' =
                  (only_transient /\ (o.kind = "raise" => o.exc.cls \in TransientClasses))
            /\ outcome' = r
            /\ IF r.kind = "raise" /\ retry(r.exc)
               THEN IF stop_after_attempt(attempt_number)
                    THEN /\ ipc' = "raised"      \* reraise=True: the last exception itself
                         /\ caller' = Raise(r.exc)
                    ELSE /\ ipc' = "sleep"
                         /\ caller' = caller
               ELSE /\ ipc' = IF r.kind = "raise" THEN "raised" ELSE "returned"
                    /\ caller' = r
    /\ UNCHANGED <<mode, attempt_number, waits>>
    /\ UNCHANGED notInvoker

\* before_sleep_log, then the wait, then the next attempt is prepared.
Sleep ==
    /\ ipc = "sleep"
    /\ waits' = Append(waits, wait_exponential(attempt_number))
    /\ attempt_number' = attempt_number + 1
    /\ ipc' = "attempt"
    /\ UNCHANGED <<mode, outcome, calls, last_backend, only_transient, caller>>
    /\ UNCHANGED notInvoker


-----------------------------------------------------------------------------
(* Message content and _convert_to_parts *)

\* A provider part. text = NoneVal and inline_data = NoneVal stand for absent.
TextPart(t) == [text |-> t, inline_data |-> NoneVal, raw |-> NoneVal]

InlinePart(img) == [text |-> NoneVal, inline_data |-> img, raw |-> NoneVal]

RawPart(r) == [text |-> NoneVal, inline_data |-> NoneVal, raw |-> r]

\* The elements of a list content.
StrItem(t) == [kind |-> "str", type |-> NoneVal, text |-> t, url |-> NoneVal]

TextItem(t) == [kind |-> "mapping", type |-> "text", text |-> t, url |-> NoneVal]

ImageItem(u) == [kind |-> "mapping", type |-> "image_url", text |-> NoneVal, url |-> u]

\* {"type": "image_url", "image_url": {}}: a dict without "url"
ImageItemNoUrl == [kind |-> "mapping", type |-> "image_url", text |-> NoneVal, url |-> "<no url>"]

OtherTypeItem == [kind |-> "mapping", type |-> "audio", text |-> NoneVal, url |-> NoneVal]

UntypedItem(t) == [kind |-> "mapping", type |-> NoneVal, text |-> t, url |-> NoneVal]

NonMappingItem == [kind |-> "int", type |-> NoneVal, text |-> NoneVal, url |-> NoneVal]

StrContent(t) == [isstr |-> TRUE, text |-> t, items |-> <<>>]

ListContent(l) == [isstr |-> FALSE, text |-> NoneVal, items |-> l]

PartsOk(ps) == [ok |-> TRUE, parts |-> ps, exc |-> NoExc]

PartsErr(e) == [ok |-> FALSE, parts |-> <<>>, exc |-> e]

\* The sources the media loader can resolve.
LoadableSources == {"https://host/cat.png"}

_is_openai_parts_format(part) == part.type # NoneVal

\* _url_to_pil: an image, or ValueError when the source cannot be processed.
_url_to_pil(image_source) ==
    IF image_source \in LoadableSources
    THEN PartsOk(<<InlinePart(<<"image of", image_source>>)>>)
    ELSE PartsErr(Exc("ValueError", <<"Unable to process the provided image source:">>))

\* The body of the loop of _convert_to_parts for one element.
ConvertPart(part) ==
    IF part.kind = "str" THEN PartsOk(<<TextPart(part.text)>>)
    ELSE IF part.kind = "mapping" THEN
        IF _is_openai_parts_format(part) THEN
            IF part.type = "text" THEN PartsOk(<<TextPart(part.text)>>)
            ELSE IF part.type = "image_url" THEN
                IF part.url = "<no url>"
                THEN PartsErr(Exc("ValueError", <<"Unrecognized message image format:">>))
                ELSE _url_to_pil(part.url)
            ELSE PartsErr(Exc("ValueError", <<"Unrecognized message part type:", part.type>>))
        ELSE PartsOk(<<RawPart(part.text)>>)
    ELSE PartsErr(Exc("ChatGoogleGenerativeAIError",
                      <<"Gemini only supports text and inline_data parts.">>))

RECURSIVE ConvertItems(_)
ConvertItems(content) ==
    IF content = <<>> THEN PartsOk(<<>>)
    ELSE LET first == ConvertPart(Head(content))
         IN  IF ~first.ok THEN first
             ELSE LET rest == ConvertItems(Tail(content))
                  IN  IF ~rest.ok THEN rest
                      ELSE PartsOk(first.parts \o rest.parts)

_convert_to_parts(raw_content) ==
    LET content == IF raw_content.isstr THEN <<StrItem(raw_content.text)>>
                   ELSE raw_content.items
    IN  ConvertItems(content)

-----------------------------------------------------------------------------
(* _parse_chat_history, one iteration of its loop per step *)

Msg(t, c) == [type |-> t, content |-> c]

Turn(r, ps) == [role |-> r, parts |-> ps]

MessageTypes == {"system", "human", "ai", "chat"}

Contents ==
    { StrContent("Be terse"),
      StrContent("Hi"),
      ListContent(<<TextItem("Hi"), ImageItem("https://host/cat.png")>>),
      ListContent(<<StrItem("Look"), ImageItem("/no/such/file")>>),
      ListContent(<<>>) }

MaxMessages == 3

RECURSIVE SeqsUpTo(_, _)
SeqsUpTo(S, n) ==
    IF n = 0 THEN {<<>>}
    ELSE LET shorter == SeqsUpTo(S, n - 1)
         IN  shorter \cup {Append(q, x) : q \in {r \in shorter : Len(r) = n - 1}, x \in S}

Conversations ==
    SeqsUpTo({Msg(t, c) : t \in MessageTypes, c \in Contents}, MaxMessages)

SystemNotSupportedMsg == <<"SystemMessages are not yet supported!">>

SystemBeforeAIMsg ==
    <<"SystemMessage should be followed by a HumanMessage and not by AIMessage.">>

UnexpectedMessageMsg(message, pos) ==
    <<"Unexpected message with type", message.type, "at the position", pos>>

leading_system_accepted(pos, message, flag) == FALSE

\* The first test of the loop: a system message at index 0 while
\* convert_system_message_to_human is off. pos counts from 1.
leading_system_rejected(pos, message, flag) ==
    pos = 1 /\ message.type = "system" /\ ~flag

role_as_user(message) == "user"

\* The role branch of the loop: "model", "user", or NoneVal for the else branch.
role_of(message) ==
    IF message.type = "ai" THEN "model"
    ELSE IF message.type = "human" THEN "user"
    ELSE NoneVal

keep_raw_system_message(held) == held

\* raw_system_message = None after its parts were prepended
consumed_raw_system_message(held) == <<>>

HistoryIdle ==
    /\ hpc = "idle"
    /\ input_messages = <<>>
    /\ convert_system_message_to_human = FALSE
    /\ i = 1
    /\ messages = <<>>
    /\ raw_system_message = <<>>
    /\ herr = NoExc
    /\ nconv = 0

\* The locals of _parse_chat_history when its loop is entered.
ParseStart ==
    [pc |-> "loop", i |-> 1, messages |-> <<>>, raw_system_message |-> <<>>,
     err |-> NoExc, nconv |-> 0]

ParseRaise(st, e, convs) ==
    [st EXCEPT !.pc = "raised", !.err = e, !.nconv = @ + convs]

\* One iteration of "for i, message in enumerate(input_messages)", on the
\* locals st; st.i is the position of the message, counted from 1.
ParseIteration(input, flag, st) ==
    LET message == input[st.i]
        role == role_of(message)
        own == _convert_to_parts(message.content)
    IN  IF leading_system_rejected(st.i, message, flag)
        THEN ParseRaise(st, Exc("ValueError", SystemNotSupportedMsg), 0)
        ELSE IF st.i = 1 /\ message.type = "system"
        THEN [st EXCEPT !.raw_system_message = <<message>>, !.i = @ + 1]
        ELSE IF role = NoneVal
        THEN ParseRaise(st, Exc("ValueError", UnexpectedMessageMsg(message, st.i - 1)), 0)
        ELSE IF ~own.ok
        THEN ParseRaise(st, own.exc, 1)
        ELSE IF st.raw_system_message = <<>>
        THEN [st EXCEPT !.messages = Append(@, Turn(role, own.parts)),
                        !.nconv = @ + 1,
                        !.i = @ + 1]
        ELSE IF role = "model"
        THEN ParseRaise(st, Exc("ValueError", SystemBeforeAIMsg), 1)
        ELSE LET sys == _convert_to_parts(st.raw_system_message[1].content)
             IN  IF ~sys.ok
                 THEN ParseRaise(st, sys.exc, 2)
                 ELSE [st EXCEPT
                         !.messages = Append(@, Turn(role, sys.parts \o own.parts)),
                         !.raw_system_message = consumed_raw_system_message(@),
                         !.nconv = @ + 2,
                         !.i = @ + 1]

RECURSIVE ParseRun(_, _, _)
ParseRun(input, flag, st) ==
    IF st.pc # "loop" THEN st
    ELSE IF st.i > Len(input) THEN [st EXCEPT !.pc = "returned"]
    ELSE ParseRun(input, flag, ParseIteration(input, flag, st))

\* The whole call: its final locals (pc "returned" with messages, or "raised" with err).
_parse_chat_history(input, flag) == ParseRun(input, flag, ParseStart)

\* _parse_chat_history(input_messages, convert_system_message_to_human) is entered.
HistoryCalled ==
    /\ hpc = "loop"
    /\ input_messages \in Conversations
    /\ convert_system_message_to_human \in BOOLEAN
    /\ i = ParseStart.i
    /\ messages = ParseStart.messages
    /\ raw_system_message = ParseStart.raw_system_message
    /\ herr = ParseStart.err
    /\ nconv = ParseStart.nconv

\* One iteration of the loop.
ParseMessage ==
    /\ hpc = "loop"
    /\ i <= Len(input_messages)
    /\ LET st == ParseIteration(input_messages, convert_system_message_to_human,
                                [pc |-> hpc, i |-> i, messages |-> messages,
                                 raw_system_message |-> raw_system_message,
                                 err |-> herr, nconv |-> nconv])
       IN  /\ hpc' = st.pc
           /\ i' = st.i
           /\ messages' = st.messages
           /\ raw_system_message' = st.raw_system_message
           /\ herr' = st.err
           /\ nconv' = st.nconv
    /\ UNCHANGED <<input_messages, convert_system_message_to_human>>
    /\ UNCHANGED notHistory

\* The loop is exhausted: return messages.
ParseReturn ==
    /\ hpc = "loop"
    /\ i > Len(input_messages)
    /\ hpc' = "returned"
    /\ UNCHANGED <<input_messages, convert_system_message_to_human, i, messages,
                   raw_system_message, herr, nconv>>
    /\ UNCHANGED notHistory


-----------------------------------------------------------------------------
(* _parts_to_content and _response_to_result *)

\* A part that carries text and inline data.
TextAndInlinePart(t, img) == [text |-> t, inline_data |-> img, raw |-> NoneVal]

ContentOk(c) == [ok |-> TRUE, content |-> c, exc |-> NoExc]

ContentErr(e) == [ok |-> FALSE, content |-> StrContent(""), exc |-> e]

RECURSIVE PartsToDescriptors(_)
\* The loop of _parts_to_content: one {"type": "text"} descriptor per part.
PartsToDescriptors(parts) ==
    IF parts = <<>> THEN PartsOk(<<>>)
    ELSE IF Head(parts).text # NoneVal
    THEN LET rest == PartsToDescriptors(Tail(parts))
         IN  IF ~rest.ok THEN rest
             ELSE PartsOk(<<TextItem(Head(parts).text)>> \o rest.parts)
    ELSE PartsErr(Exc("ChatGoogleGenerativeAIError", <<"Unexpected part type.">>))

_parts_to_content_as_list(parts) ==
    IF parts = <<>>
    THEN ContentOk(StrContent(""))
    ELSE LET ds == PartsToDescriptors(parts)
         IN  IF ds.ok THEN ContentOk(ListContent(ds.parts)) ELSE ContentErr(ds.exc)

_parts_to_content(parts) ==
    IF Len(parts) = 1 /\ parts[1].text # NoneVal /\ parts[1].inline_data = NoneVal
    THEN ContentOk(StrContent(parts[1].text))
    ELSE IF parts = <<>>
    THEN ContentOk(StrContent(""))
    ELSE LET ds == PartsToDescriptors(parts)
         IN  IF ds.ok THEN ContentOk(ListContent(ds.parts)) ELSE ContentErr(ds.exc)

FinalTypes ==
    [ai_msg_t |-> "AIMessage", human_msg_t |-> "HumanMessage",
     chat_msg_t |-> "ChatMessage", generation_t |-> "ChatGeneration"]

ChunkTypes ==
    [ai_msg_t |-> "AIMessageChunk", human_msg_t |-> "HumanMessageChunk",
     chat_msg_t |-> "ChatMessageChunk", generation_t |-> "ChatGenerationChunk"]

Candidate(r, ps, fr, sr) ==
    [role |-> r, parts |-> ps, finish_reason |-> fr, safety_ratings |-> sr]

Response(pf, cs) == [prompt_feedback |-> pf, candidates |-> cs]

Message(t, c, r) == [cls |-> t, content |-> c, role |-> r]

\* generation_info is a dict: the set of its (key, value) pairs.
Generation(t, msg, info) == [cls |-> t, message |-> msg, generation_info |-> info]

ChatResult(gens, out) == [generations |-> gens, llm_output |-> out]

ResultOk(r) == [ok |-> TRUE, result |-> r, exc |-> NoExc]

ResultErr(e) == [ok |-> FALSE, result |-> ChatResult(<<>>, {}), exc |-> e]

\* llm_output: prompt_feedback serialised when present; a failure to
\* serialise it is logged and dropped.
LlmOutput(resp) ==
    IF resp.prompt_feedback = "block_reason: SAFETY"
    THEN {<<"prompt_feedback", "{'block_reason': 'SAFETY'}">>}
    ELSE {}

role_map(t) == [model |-> t.ai_msg_t, user |-> t.human_msg_t]

\* The body of "for candidate in response.candidates".
CandidateToGeneration(candidate, t) ==
    LET parts_content == _parts_to_content(candidate.parts)
        msg == IF candidate.role \notin DOMAIN role_map(t)
               THEN Message(t.chat_msg_t, parts_content.content, candidate.role)
               ELSE Message(role_map(t)[candidate.role], parts_content.content, NoneVal)
        generation_info ==
            (IF candidate.finish_reason # NoneVal
             THEN {<<"finish_reason", candidate.finish_reason>>} ELSE {})
            \cup
            (IF candidate.safety_ratings # NoneVal
             THEN {<<"safety_ratings", candidate.safety_ratings>>} ELSE {})
    IN  IF ~parts_content.ok THEN ResultErr(parts_content.exc)
        ELSE ResultOk(ChatResult(<<Generation(t.generation_t, msg, generation_info)>>, {}))

RECURSIVE CandidatesToGenerations(_, _)
CandidatesToGenerations(candidates, t) ==
    IF candidates = <<>> THEN ResultOk(ChatResult(<<>>, {}))
    ELSE LET first == CandidateToGeneration(Head(candidates), t)
         IN  IF ~first.ok THEN first
             ELSE LET rest == CandidatesToGenerations(Tail(candidates), t)
                  IN  IF ~rest.ok THEN rest
                      ELSE ResultOk(ChatResult(first.result.generations
                                                  \o rest.result.generations, {}))

no_generations(t) == <<>>

\* The generations synthesised for a response without candidates.
empty_response_generations(t) ==
    <<Generation(t.generation_t, Message(t.ai_msg_t, StrContent(""), NoneVal), {})>>

_response_to_result(resp, t) ==
    LET llm_output == LlmOutput(resp)
        gens == CandidatesToGenerations(resp.candidates, t)
    IN  IF ~gens.ok THEN gens
        ELSE IF resp.candidates = <<>>
        THEN ResultOk(ChatResult(empty_response_generations(t), llm_output))
        ELSE ResultOk(ChatResult(gens.result.generations, llm_output))

PromptFeedbacks == {NoneVal, "block_reason: SAFETY", "<unserialisable>"}

PartLists ==
    { <<>>,
      <<TextPart("Hi")>>,
      <<TextPart("Hi"), TextPart("there")>>,
      <<InlinePart("png")>>,
      <<TextPart("Hi"), InlinePart("png")>>,
      <<TextAndInlinePart("Hi", "png")>> }

Candidates ==
    {Candidate(r, ps, NoneVal, NoneVal) : r \in {"model", "user", "function"}, ps \in PartLists}
        \cup {Candidate("model", ps, "STOP", "HARM_CATEGORY_HARASSMENT: NEGLIGIBLE") :
                ps \in PartLists}

MaxCandidates == 2

Responses ==
    {Response(pf, cs) : pf \in PromptFeedbacks, cs \in SeqsUpTo(Candidates, MaxCandidates)}

ResponseIdle ==
    /\ rpc = "idle"
    /\ response = Response(NoneVal, <<>>)
    /\ types = FinalTypes
    /\ translated = ResultOk(ChatResult(<<>>, {}))

\* _response_to_result(response, ai_msg_t, human_msg_t, chat_msg_t, generation_t) is called.
ResponseCalled ==
    /\ rpc = "called"
    /\ response \in Responses
    /\ types \in {FinalTypes, ChunkTypes}
    /\ translated = ResultOk(ChatResult(<<>>, {}))

\* The call runs to its return or its exception.
ResponseToResult ==
    /\ rpc = "called"
    /\ rpc' = "done"
    /\ translated' = _response_to_result(response, types)
    /\ UNCHANGED <<response, types>>
    /\ UNCHANGED notResponse

-----------------------------------------------------------------------------
(* ChatGoogleGenerativeAI: _prepare_params, _prepare_chat and the operations *)

\* Numbers and lists of the generation configuration are written as text.
GenerationConfigKeys ==
    {"candidate_count", "temperature", "stop_sequences", "max_output_tokens",
     "top_k", "top_p"}

\* {**a, **b}
DictMerge(a, b) ==
    [k \in (DOMAIN a) \cup (DOMAIN b) |-> IF k \in DOMAIN b THEN b[k] ELSE a[k]]

\* {k: v for k, v in d.items() if v is not None}
DropNone(d) == [k \in {x \in DOMAIN d : d[x] # NoneVal} |-> d[k]]

DefaultGenerationConfig(cfg, stop) ==
    [k \in GenerationConfigKeys |->
        CASE k = "candidate_count" -> cfg.n
          [] k = "temperature" -> cfg.temperature
          [] k = "stop_sequences" -> stop
          [] k = "max_output_tokens" -> cfg.max_output_tokens
          [] k = "top_k" -> cfg.top_k
          [] k = "top_p" -> cfg.top_p]

\* **kwargs: whether "generation_config" is among them, and its value.
NoKwargs == [has_generation_config |-> FALSE, generation_config |-> [k \in {} |-> NoneVal]]

Kwargs(overrides) ==
    [has_generation_config |-> TRUE,
     generation_config |-> [k \in DOMAIN overrides |-> overrides[k]]]

\* The generation_config entry of the params _prepare_params returns.
_prepare_params(cfg, stop, kwargs) ==
    LET gen_config == DropNone(DefaultGenerationConfig(cfg, stop))
    IN  IF kwargs.has_generation_config
        THEN DictMerge(gen_config, kwargs.generation_config)
        ELSE gen_config

Prepared(params, history, message) ==
    [ok |-> TRUE, params |-> params, history |-> history, message |-> message,
     exc |-> NoExc]

PrepareErr(e) ==
    [ok |-> FALSE, params |-> [k \in {} |-> NoneVal], history |-> <<>>,
     message |-> Turn(NoneVal, <<>>), exc |-> e]

_prepare_chat(cfg, msgs, stop, kwargs) ==
    LET params == _prepare_params(cfg, stop, kwargs)
        parsed == _parse_chat_history(msgs, cfg.convert_system_message_to_human)
        history == parsed.messages
    IN  IF parsed.pc = "raised" THEN PrepareErr(parsed.err)
        ELSE IF history = <<>>
        THEN PrepareErr(Exc("IndexError", <<"pop from empty list">>))
        ELSE Prepared(params, SubSeq(history, 1, Len(history) - 1),
                      history[Len(history)])

ModelConfigs ==
    { [n |-> "1", temperature |-> "0.7", max_output_tokens |-> NoneVal, top_k |-> "40",
       top_p |-> NoneVal, convert_system_message_to_human |-> f] : f \in BOOLEAN }

CallMessages ==
    { << Msg("human", StrContent("Hi")) >>,
      << Msg("system", StrContent("Be terse")), Msg("human", StrContent("Hi")) >> }

CallStops == {NoneVal, "['END']"}

CallKwargs ==
    { NoKwargs,
      Kwargs([temperature |-> "0.1", stop_sequences |-> "['STOP']", top_p |-> "0.9"]) }

Calls ==
    [messages : CallMessages, stop : CallStops, run_manager : BOOLEAN,
     kwargs : CallKwargs]

NoCall ==
    [messages |-> <<>>, stop |-> NoneVal, run_manager |-> FALSE, kwargs |-> NoKwargs]

NoRequest ==
    [sent |-> FALSE, content |-> Turn(NoneVal, <<>>), history |-> <<>>,
     generation_config |-> [k \in {} |-> NoneVal], stream |-> FALSE]

Request(prepared, stream) ==
    [sent |-> TRUE, content |-> prepared.message, history |-> prepared.history,
     generation_config |-> prepared.params, stream |-> stream]

\* A constructed model on which no operation has been called.
ModelIdle ==
    /\ config \in ModelConfigs
    /\ op = "none"
    /\ opc = "idle"
    /\ call = NoCall
    /\ request = NoRequest
    /\ delivered = <<>>
    /\ received = <<>>
    /\ tokens = <<>>
    /\ observed = NoOutcome

\* The model as the other specifications see it: one instance, not in use.
ModelAtRest ==
    /\ ModelIdle
    /\ config = [n |-> "1", temperature |-> "0.7", max_output_tokens |-> NoneVal,
                 top_k |-> "40", top_p |-> NoneVal,
                 convert_system_message_to_human |-> FALSE]

\* The part the four operations share: _prepare_chat(messages, stop=stop), then
\* the invoker is entered with the prepared request.
Operation(name, m, stream) ==
    /\ opc = "idle"
    /\ ipc = "idle"
    /\ \E c \in Calls :
        LET prepared == _prepare_chat(config, c.messages, c.stop, NoKwargs)
        IN  /\ op' = name
            /\ call' = c
            /\ IF prepared.ok
               THEN /\ request' = Request(prepared, stream)
                    /\ opc' = "invoking"
                    /\ observed' = observed
                    /\ ipc' = "attempt"
                    /\ mode' = m
                    /\ attempt_number' = 1
               ELSE /\ request' = request
                    /\ opc' = "failed"
                    /\ observed' = Raise(prepared.exc)
                    /\ UNCHANGED <<ipc, mode, attempt_number>>
    /\ UNCHANGED <<outcome, waits, calls, last_backend, only_transient, caller>>
    /\ UNCHANGED <<config, delivered, received, tokens>>
    /\ UNCHANGED notModel

_generate == Operation("generate", "sync", FALSE)

_agenerate == Operation("agenerate", "async", FALSE)

\* The first next() on the generator runs it up to the invoker.
_stream == Operation("stream", "sync", TRUE)

_astream == Operation("astream", "async", TRUE)

\* The invoker raised: the exception leaves the operation.
InvokerRaised ==
    /\ opc = "invoking"
    /\ ipc = "raised"
    /\ opc' = "failed"
    /\ observed' = caller
    /\ UNCHANGED <<config, op, call, request, delivered, received, tokens>>
    /\ UNCHANGED <<ivars, notModel>>

\* The responses the handle returned by the backend can turn out to hold.
CallResponses ==
    { Response(NoneVal, <<Candidate("model", <<TextPart("Hi")>>, "STOP", NoneVal)>>),
      Response(NoneVal, <<Candidate("model", <<TextPart("Hel")>>, NoneVal, NoneVal),
                          Candidate("model", <<TextPart("lo")>>, "STOP", NoneVal)>>),
      Response(NoneVal, <<Candidate("model", <<TextPart("Hi"), TextPart("there")>>,
                                    "STOP", NoneVal)>>),
      Response("block_reason: SAFETY", <<>>),
      Response(NoneVal, <<Candidate("model", <<TextPart("Hi"), InlinePart("png")>>,
                                    NoneVal, NoneVal)>>) }

\* _generate and _agenerate after the invoker returned: _response_to_result(response).
GenerateReturn ==
    /\ opc = "invoking"
    /\ ipc = "returned"
    /\ op \in {"generate", "agenerate"}
    /\ IF caller.value = NoneVal
       THEN /\ opc' = "failed"
            /\ observed' = Raise(Exc("AttributeError",
                   <<"'NoneType' object has no attribute 'prompt_feedback'">>))
       ELSE \E resp \in CallResponses :
              LET r == _response_to_result(resp, FinalTypes)
              IN  /\ opc' = IF r.ok THEN "done" ELSE "failed"
                  /\ observed' = IF r.ok THEN Return(caller.value) ELSE Raise(r.exc)
    /\ UNCHANGED <<config, op, call, request, delivered, received, tokens>>
    /\ UNCHANGED <<ivars, notModel>>

MaxChunks == 3

last_generation(result) == result.generations[Len(result.generations)]

\* _chat_result.generations[0]
first_generation(result) == result.generations[1]

\* gen.text: the content of the message when it is a string, else "".
GenerationText(gen) ==
    IF gen.message.content.isstr THEN gen.message.content.text ELSE ""

\* "for chunk in response": the backend stream delivers a partial response,
\* which is translated and yielded, or it closes and the generator ends.
NextChunk ==
    \/ /\ Len(delivered) < MaxChunks
       /\ \E chunk \in CallResponses :
            LET _chat_result == _response_to_result(chunk, ChunkTypes)
            IN  /\ delivered' = Append(delivered, chunk)
                /\ IF _chat_result.ok
                   THEN /\ received' = Append(received, first_generation(_chat_result.result))
                        /\ opc' = "suspended"
                        /\ observed' = observed
                   ELSE /\ received' = received
                        /\ opc' = "failed"
                        /\ observed' = Raise(_chat_result.exc)
    \/ /\ opc' = "exhausted"
       /\ UNCHANGED <<delivered, received, observed>>

\* The generator of _stream / _astream reaches its loop for the first time.
StreamFirst ==
    /\ opc = "invoking"
    /\ ipc = "returned"
    /\ op \in {"stream", "astream"}
    /\ IF caller.value = NoneVal
       THEN /\ opc' = "failed"
            /\ observed' = Raise(Exc("TypeError", <<"'NoneType' object is not iterable">>))
            /\ UNCHANGED <<delivered, received>>
       ELSE NextChunk
    /\ UNCHANGED <<config, op, call, request, tokens>>
    /\ UNCHANGED <<ivars, notModel>>

\* The consumer asks for the next chunk: the generator resumes after its yield,
\* notifies run_manager of the chunk it had yielded, and goes round the loop.
StreamResume ==
    /\ opc = "suspended"
    /\ tokens' = IF call.run_manager
                 THEN Append(tokens, GenerationText(received[Len(received)]))
                 ELSE tokens
    /\ NextChunk
    /\ UNCHANGED <<config, op, call, request>>
    /\ UNCHANGED <<ivars, notModel>>

\* The consumer stops iterating: the generator is closed where it is suspended,
\* at its yield.
StreamClose ==
    /\ opc = "suspended"
    /\ opc' = "closed"
    /\ UNCHANGED <<config, op, call, request, delivered, received, tokens, observed>>
    /\ UNCHANGED <<ivars, notModel>>

-----------------------------------------------------------------------------
(* A content converted by _convert_to_parts and read back by _response_to_result *)

RoundTripTexts == {"", "Hi", "Be terse", "{'type': 'text'}"}

RoundTripItems ==
    {StrItem(t) : t \in RoundTripTexts} \cup {TextItem(t) : t \in RoundTripTexts}
        \cup {ImageItem("https://host/cat.png"), UntypedItem("Hi"), NonMappingItem}

MaxParts == 2

RoundTripContents ==
    {StrContent(t) : t \in RoundTripTexts}
        \cup {ListContent(l) : l \in SeqsUpTo(RoundTripItems, MaxParts)}

RoundTripIdle ==
    /\ tpc = "idle"
    /\ sent_content = StrContent("")
    /\ turn_parts = PartsOk(<<>>)
    /\ back = ResultOk(ChatResult(<<>>, {}))

\* A message content about to be converted.
RoundTripCalled ==
    /\ tpc = "content"
    /\ sent_content \in RoundTripContents
    /\ turn_parts = PartsOk(<<>>)
    /\ back = ResultOk(ChatResult(<<>>, {}))

\* _convert_to_parts(sent_content)
ConvertToParts ==
    /\ tpc = "content"
    /\ tpc' = "parts"
    /\ turn_parts' = _convert_to_parts(sent_content)
    /\ UNCHANGED <<sent_content, back>>
    /\ UNCHANGED notRoundTrip

\* _response_to_result on a response whose single candidate has the parts of
\* the turn as its content.
ReadBack ==
    /\ tpc = "parts"
    /\ turn_parts.ok
    /\ tpc' = "back"
    /\ \E r \in {"model", "user", "function"}, t \in {FinalTypes, ChunkTypes},
          fr \in {NoneVal, "STOP"} :
          back' = _response_to_result(
                      Response(NoneVal, <<Candidate(r, turn_parts.parts, fr, NoneVal)>>), t)
    /\ UNCHANGED <<sent_content, turn_parts>>
    /\ UNCHANGED notRoundTrip

-----------------------------------------------------------------------------
(* Specifications: one per component, the others at rest *)

InitInvoker ==
    InvokerIdle /\ HistoryIdle /\ ResponseIdle /\ ModelAtRest /\ RoundTripIdle

NextInvoker ==
    \/ ChatWithRetry
    \/ AChatWithRetry
    \/ Attempt
    \/ Sleep

SpecInvoker == InitInvoker /\ [][NextInvoker]_vars

InitHistory ==
    /\ InvokerIdle
    /\ HistoryCalled
    /\ ResponseIdle
    /\ ModelAtRest
    /\ RoundTripIdle

NextHistory ==
    \/ ParseMessage
    \/ ParseReturn

SpecHistory == InitHistory /\ [][NextHistory]_vars

InitResponse ==
    /\ InvokerIdle
    /\ HistoryIdle
    /\ ResponseCalled
    /\ ModelAtRest
    /\ RoundTripIdle

NextResponse == ResponseToResult

SpecResponse == InitResponse /\ [][NextResponse]_vars

InitModel ==
    /\ InvokerIdle
    /\ HistoryIdle
    /\ ResponseIdle
    /\ ModelIdle
    /\ RoundTripIdle

NextModel ==
    \/ _generate
    \/ _agenerate
    \/ _stream
    \/ _astream
    \/ Attempt
    \/ Sleep
    \/ InvokerRaised
    \/ GenerateReturn
    \/ StreamFirst
    \/ StreamResume
    \/ StreamClose

SpecModel == InitModel /\ [][NextModel]_vars

InitRoundTrip ==
    /\ InvokerIdle
    /\ HistoryIdle
    /\ ResponseIdle
    /\ ModelAtRest
    /\ RoundTripCalled

NextRoundTrip ==
    \/ ConvertToParts
    \/ ReadBack

SpecRoundTrip == InitRoundTrip /\ [][NextRoundTrip]_vars

-----------------------------------------------------------------------------
(* Properties of the invoker *)

BackendRaised == last_backend.kind = "raise"

\* C1: an invocation whose backend call raises only transient-classified errors
\* makes at most 10 backend calls; a success (also on the 10th attempt, after 9
\* failures) is returned as it is; a failure before the 10th attempt is retried;
\* a failure of the 10th attempt ends the invocation and the caller observes
\* that very exception, unwrapped.
C1_RetryBudget ==
    /\ calls <= 10
    /\ (only_transient /\ last_backend.kind = "return") =>
            /\ ipc = "returned"
            /\ caller = Return(last_backend.value)
    /\ (only_transient /\ BackendRaised /\ calls < 10) =>
            /\ ipc \in {"sleep", "attempt"}
            /\ caller = NoOutcome
    /\ (only_transient /\ BackendRaised /\ calls = 10) =>
            /\ ipc = "raised"
            /\ caller = Raise(last_backend.exc)

\* Nine transient failures, then a success on the tenth attempt.
C1_Witness ==
    /\ only_transient
    /\ calls = 10
    /\ Len(waits) = 9
    /\ ipc = "returned"
    /\ caller.value \in Values

BackendRaisedInvalidArgument ==
    BackendRaised /\ last_backend.exc.cls = "InvalidArgument"

\* C2: in the synchronous and the asynchronous invoker, once an attempt of the
\* backend call raises an invalid-argument error no further backend call is
\* made, and the caller observes a ChatGoogleGenerativeAIError whose message
\* contains the original error's message.
C2_InvalidArgumentFatal ==
    /\ [](BackendRaisedInvalidArgument =>
            /\ ipc = "raised"
            /\ caller.kind = "raise"
            /\ caller.exc.cls = "ChatGoogleGenerativeAIError"
            /\ IsInfix(last_backend.exc.message, caller.exc.message)
            /\ Len(waits) = calls - 1)
    /\ [][BackendRaisedInvalidArgument => (calls' = calls /\ caller' = caller)]_vars

\* An invalid-argument error on the first attempt of the asynchronous invoker.
C2_Witness ==
    /\ BackendRaisedInvalidArgument
    /\ mode = "async"
    /\ calls = 1
    /\ ipc = "raised"

BackendRaisedLocation ==
    /\ BackendRaised
    /\ last_backend.exc.cls = "FailedPrecondition"
    /\ IsInfix(LocationNeedle, last_backend.exc.message)

\* C3: on the synchronous and the asynchronous path alike, a failed-precondition
\* error whose message says the location is not supported is not retried, and the
\* caller observes the ValueError that points to ChatVertexAI.
C3_LocationFatalEverywhere ==
    BackendRaisedLocation =>
        /\ ipc = "raised"
        /\ caller.kind = "raise"
        /\ caller.exc = Exc("ValueError", LocationErrorMsg)

\* C10 as stated: the wait after the k-th failed attempt is min(60, 2^(k-1)).
C10_WaitsStartAtOne ==
    \A k \in 1..Len(waits) : waits[k] = Min(60, Pow(2, k - 1))

\* C10, amended: the wait after the k-th failed attempt (k = 1..9) is
\* min(60, 2^k) seconds, i.e. 2, 4, 8, 16, 32, 60, 60, 60, 60; every attempt
\* but the first is preceded by exactly one wait and no wait follows the 10th.
C10_Backoff ==
    /\ \A k \in 1..Len(waits) : waits[k] = Min(60, Pow(2, k))
    /\ Len(waits) <= 9
    /\ attempt_number >= 1 => Len(waits) = attempt_number - 1
    /\ calls = IF ipc = "attempt" THEN Len(waits) ELSE Len(waits) + 1 - (IF ipc = "idle" THEN 1 ELSE 0)
    /\ ipc = "sleep" => calls < 10

\* All nine waits of an invocation that used its ten attempts.
C10_Witness ==
    /\ waits = <<2, 4, 8, 16, 32, 60, 60, 60, 60>>
    /\ calls = 10

-----------------------------------------------------------------------------
(* Properties of the history translator *)

OwnParts(message) == _convert_to_parts(message.content).parts

IsSuffix(suffix, seq) ==
    /\ Len(suffix) <= Len(seq)
    /\ SubSeq(seq, Len(seq) - Len(suffix) + 1, Len(seq)) = suffix

\* The first message is a system message and the flag is set: it is held aside.
LeadingSystemHeld ==
    /\ hpc # "idle"
    /\ Len(input_messages) >= 1
    /\ input_messages[1].type = "system"
    /\ convert_system_message_to_human

\* The turns emitted so far carry the system parts once: in front of the own
\* parts of the first turn, which is a "user" turn, and in no later turn.
SystemPartsOnceOnFirstTurn ==
    \A k \in 1..Len(messages) :
        IF k = 1
        THEN /\ messages[1].role = "user"
             /\ messages[1].parts =
                    OwnParts(input_messages[1]) \o OwnParts(input_messages[2])
        ELSE messages[k].parts = OwnParts(input_messages[k + 1])

\* A model-origin message right after the system message: no turn list results.
SystemThenModelFails ==
    (Len(input_messages) >= 2 /\ input_messages[2].type = "ai") =>
        /\ hpc \in {"loop", "raised"}
        /\ messages = <<>>

HeldOffset == IF LeadingSystemHeld THEN 1 ELSE 0

\* C6: for either flag value, every turn _parse_chat_history emits has role
\* "user" (for a human message) or "model" (for a model message); a returned
\* turn list has one turn per input message other than a held-aside leading
\* system message, in input order; and no turn list is returned when a message
\* of another kind occurs at any position.
C6_RolesAndOrder ==
    hpc # "idle" =>
        /\ \A k \in 1..Len(messages) :
              LET message == input_messages[k + HeldOffset]
              IN  /\ messages[k].role \in {"user", "model"}
                  /\ message.type \in {"human", "ai"}
                  /\ messages[k].role = "user" <=> message.type = "human"
                  /\ messages[k].role = "model" <=> message.type = "ai"
                  /\ IsSuffix(OwnParts(message), messages[k].parts)
        /\ hpc = "returned" =>
              /\ Len(messages) = Len(input_messages) - HeldOffset
              /\ \A p \in 1..Len(input_messages) :
                    \/ input_messages[p].type \in {"human", "ai"}
                    \/ p = 1 /\ LeadingSystemHeld

\* A three-turn result with a model turn in the middle.
C6_Witness ==
    /\ hpc = "returned"
    /\ Len(messages) = 3
    /\ messages[1].role = "user"
    /\ messages[2].role = "model"
    /\ messages[3].role = "user"

-----------------------------------------------------------------------------
(* Properties of the response translator *)

\* C7: for a response without candidates, with or without prompt feedback,
\* _response_to_result raises nothing and returns exactly one Generation: an
\* AI-kind message with empty-string content and an empty generation_info.
C7_EmptyResponse ==
    (rpc = "done" /\ response.candidates = <<>>) =>
        /\ translated.ok
        /\ translated.exc = NoExc
        /\ Len(translated.result.generations) = 1
        /\ translated.result.generations[1].message.cls
              \in {"AIMessage", "AIMessageChunk"}
        /\ translated.result.generations[1].message.content = StrContent("")
        /\ translated.result.generations[1].generation_info = {}

\* A response without candidates whose prompt feedback reports a block.
C7_Witness ==
    /\ rpc = "done"
    /\ response.candidates = <<>>
    /\ response.prompt_feedback = "block_reason: SAFETY"
    /\ translated.result.llm_output # {}

-----------------------------------------------------------------------------
(* Properties of the operations *)

\* C4: whenever an operation called with a generation_config override has
\* handed a request to the backend, the request's generation configuration is
\* the configured defaults without their unset keys, merged with the caller's
\* overrides, the caller's value winning on every key it supplies.
C4_OverridesReachBackend ==
    (request.sent /\ calls >= 1 /\ call.kwargs.has_generation_config) =>
        /\ \A k \in DOMAIN call.kwargs.generation_config :
              /\ k \in DOMAIN request.generation_config
              /\ request.generation_config[k] = call.kwargs.generation_config[k]
        /\ request.generation_config =
              DictMerge(DropNone(DefaultGenerationConfig(config, call.stop)),
                        call.kwargs.generation_config)

Streaming == op \in {"stream", "astream"}

StreamOver == opc \in {"exhausted", "closed", "failed"}

\* C8: with a run_manager supplied, once the stream has ended or has been
\* abandoned there is one notification per chunk the consumer received, the
\* k-th carrying the text of the k-th chunk.
C8_EveryChunkNotified ==
    (Streaming /\ call.run_manager /\ StreamOver) =>
        /\ Len(tokens) = Len(received)
        /\ \A k \in 1..Len(tokens) : tokens[k] = GenerationText(received[k])

\* The chunk a partial response translates to: the first generation of its
\* translation with the chunk constructors.
ExpectedChunk(partial) ==
    _response_to_result(partial, ChunkTypes).result.generations[1]

Translatable(partial) == _response_to_result(partial, ChunkTypes).ok

\* C9: the chunks emitted by stream and astream are the translations of the
\* partial responses delivered, one for one and in arrival order (an
\* empty-content chunk for a partial response without candidates); when the
\* backend stream closes after n partial responses, exactly n chunks have been
\* emitted and the stream ends. Only a partial response that cannot be
\* translated ends the stream early, with the chunks before it emitted.
C9_OneChunkPerPartialResponse ==
    Streaming =>
        /\ opc # "failed" =>
              /\ Len(received) = Len(delivered)
              /\ \A k \in 1..Len(delivered) : Translatable(delivered[k])
        /\ (opc = "failed" /\ delivered # <<>>) =>
              /\ Len(received) = Len(delivered) - 1
              /\ ~Translatable(delivered[Len(delivered)])
        /\ \A k \in 1..Len(received) :
              /\ received[k] = ExpectedChunk(delivered[k])
              /\ received[k].cls = "ChatGenerationChunk"
              /\ delivered[k].candidates = <<>> =>
                    received[k].message = Message("AIMessageChunk", StrContent(""), NoneVal)

\* A stream of three partial responses, the second without candidates and the
\* third with two candidates, consumed to its end.
C9_Witness ==
    /\ Streaming
    /\ opc = "exhausted"
    /\ Len(delivered) = 3
    /\ Len(received) = 3
    /\ delivered[2].candidates = <<>>
    /\ Len(delivered[3].candidates) = 2

-----------------------------------------------------------------------------
(* A leading system message with the flag off *)

LeadingSystemUnconverted ==
    /\ hpc # "idle"
    /\ Len(input_messages) >= 1
    /\ input_messages[1].type = "system"
    /\ ~convert_system_message_to_human

\* C11: when the first message is a system message and
\* convert_system_message_to_human is false, _parse_chat_history ends, whatever
\* the other messages are, by raising the ValueError about unsupported system
\* messages: it returns no turn list, has built no turn, and has applied
\* _convert_to_parts to no content.
C11_SystemRejectedFirst ==
    LeadingSystemUnconverted =>
        /\ hpc \in {"loop", "raised"}
        /\ nconv = 0
        /\ messages = <<>>
        /\ raw_system_message = <<>>
        /\ i = 1
        /\ hpc = "raised" =>
              /\ herr.cls = "ValueError"
              /\ herr.message = <<"SystemMessages are not yet supported!">>

\* A rejected conversation whose later messages would each have failed or
\* been converted: a second system message and a human message with an image.
C11_Witness ==
    /\ LeadingSystemUnconverted
    /\ hpc = "raised"
    /\ Len(input_messages) = 3
    /\ input_messages[2].type = "human"
    /\ ~input_messages[2].content.isstr
    /\ input_messages[3].type = "ai"

-----------------------------------------------------------------------------
(* What the synchronous invoker hands back *)

\* C13: whenever the synchronous invoker returns normally, its latest backend
\* call completed without raising and the value returned is the value of that
\* call; an attempt that raised is followed by another attempt or by an
\* exception at the caller, never by a normal return.
C13_SyncNeverAbsorbs ==
    (mode = "sync" /\ calls >= 1) =>
        /\ ipc = "returned" =>
              /\ last_backend.kind = "return"
              /\ caller = Return(last_backend.value)
        /\ BackendRaised =>
              /\ ipc \in {"sleep", "attempt", "raised"}
              /\ ipc = "raised" => caller.kind = "raise"

-----------------------------------------------------------------------------
(* Plain text there and back *)

SingleTextPart(parts) ==
    /\ Len(parts) = 1
    /\ parts[1].text # "None"
    /\ parts[1].inline_data = "None"

\* C12: for every string s, _convert_to_parts of the plain-string content s is
\* exactly one text part with text s; a part list that is exactly one text part
\* with text s and no inline data is mapped back to the plain string s, not to
\* a list; so the Generation of a single-candidate response with that content
\* has content s.
C12_PlainTextRoundTrip ==
    /\ (tpc \in {"parts", "back"} /\ sent_content.isstr) =>
          /\ turn_parts.ok
          /\ turn_parts.parts =
                <<[text |-> sent_content.text, inline_data |-> "None", raw |-> "None"]>>
    /\ (tpc = "back" /\ SingleTextPart(turn_parts.parts)) =>
          /\ back.ok
          /\ Len(back.result.generations) = 1
          /\ back.result.generations[1].message.content =
                [isstr |-> TRUE, text |-> turn_parts.parts[1].text, items |-> <<>>]
    /\ (tpc = "back" /\ sent_content.isstr) =>
          back.result.generations[1].message.content = sent_content

\* The plain string "Be terse" sent and read back as a chunk.
C12_Witness ==
    /\ tpc = "back"
    /\ sent_content = [isstr |-> TRUE, text |-> "Be terse", items |-> <<>>]
    /\ back.ok
    /\ back.result.generations[1].cls = "ChatGenerationChunk"
    /\ back.result.generations[1].message.content.text = "Be terse"

====
